---- MODULE Spec2Model ----
(***************************************************************************)
(* A model of the baasbot strategy evaluation engine                       *)
(* (strategy_base.py, technical_indicators.py, strategy_comparison.py),    *)
(* of the strategies' generate_signals, of the cost calculator            *)
(* (transaction_costs.py), and of the live execution loop                  *)
(* (live_paper_trader.py) with the data fetch it relies on                 *)
(* (data_manager.py).                                                      *)
(*                                                                         *)
(* Numbers are exact rationals [n, d] (d > 0, lowest terms); the pandas    *)
(* missing value NaN is the record with d = 0.  Floating point rounding is *)
(* not modelled.  A pandas Series is a sequence of such numbers.           *)
(***************************************************************************)
EXTENDS Integers, Sequences, FiniteSets, TLC

VARIABLES
    \* ---- StrategyBase.backtest: the table and the columns it derives
    signal,            \* with_signals['signal'], one of 1, -1, 0 per bar
    close,             \* prepared['close'], one price per bar
    initial_capital,   \* the initial_capital argument
    position,          \* with_positions['position']
    returns,           \* prepared['returns']
    strategy_returns,  \* with_positions['strategy_returns']
    equity,            \* with_positions['equity']
    metrics,           \* the performance metrics returned, <<>> if none
    bt_status          \* "none" before a run, "ok" returned, "raised" IndexError

VARIABLES
    \* ---- StrategyComparison.run_comparison
    strategies,        \* self.strategies: what each strategy's backtest does
    cmp_pc,            \* "idle", "loop", "returned" or "raised"
    cmp_i,             \* the strategy the for loop is at
    comparison_data,   \* the rows collected so far
    results,           \* the keys of self.results
    backtested,        \* the strategies whose backtest has been called
    ranking            \* the table returned

VARIABLES
    \* ---- LivePaperTrader.run and the brokerage account it trades on
    live_pc,           \* where run is: "idle", "loop", "cycle", "symbol",
                       \* "duration", "sleep", "finally", "returned", "propagated"
    duration_hours,    \* the argument of run: <<>> for None, <<h>> for h
    elapsed,           \* time since start_time, in check intervals
    idx,               \* the symbol the for loop of the cycle is at
    account,           \* account['cash'] as read at the start of the cycle
    held,              \* the brokerage's open position per symbol (0: none)
    exc,               \* the exception run is propagating: "none", "Exception"
    summary,           \* whether the final summary has been logged
    evaluated,         \* the symbols whose try block the cycle has entered
    failed,            \* the symbols of the cycle that hit a failure
    obs,               \* what the latest evaluation of a symbol saw and did
    exit_cause         \* why the while loop was left

VARIABLES
    \* ---- generate_signals of the five strategies
    strategy,          \* the strategy object: its name and parameters
    data,              \* the table passed in: column name -> values per bar
    generated,         \* result['signal'] of the table returned
    gs_status          \* "none" before the call, "returned", or the error

VARIABLES
    \* ---- TransactionCostCalculator
    cost_model,        \* self.model, <<>> before the constructor has run
    cost_call,         \* the latest call and its arguments
    cost_result,       \* what it returned, <<>> if it raised
    cost_status        \* "none", "ready", "returned", or the error raised

VARIABLES
    \* ---- DataManager and its cache directory
    dm_pc,             \* "none" before DataManager() has run, then "ready"
    cache,             \* the cache file of each key: absent or stored
    fetch_call,        \* the latest fetch_stock_data call and what it found
    fetch_result       \* where its bars came from, the live contacts it made

VARIABLES
    \* ---- one trading cycle over a long list of symbols
    watch_pc,          \* "idle" between cycles, "symbol" inside the for loop
    watch_cash,        \* account['cash'], read once when the cycle starts
    watch_idx,         \* index of the symbol the for loop is at
    bought,            \* summed value of the buy orders accepted in the cycle
    watch_obs          \* the latest symbol's decision

VARIABLES
    \* ---- consecutive cycles against a brokerage that fills orders later
    pend_pc,           \* "idle" between cycles, "symbol" inside the for loop
    pend_cash,         \* account['cash'], read once when the cycle starts
    pend_idx,          \* index of the symbol the for loop is at
    positions,         \* the open position of each symbol, in shares
    unfilled,          \* shares of each symbol's accepted buy orders not yet filled
    pend_obs           \* the latest symbol's decision and what was unfilled then

VARIABLES
    \* ---- the window of bars of one symbol of a live cycle
    win_pc,            \* "idle", "fetched", "prepared", then "read" or "IndexError"
    win_source,        \* where the bars came from
    win_bars,          \* number of bars fetch_stock_data returned
    win_prepared       \* number of bars prepare_data left

btVars == <<signal, close, initial_capital, position, returns,
            strategy_returns, equity, metrics, bt_status>>

cmpVars == <<strategies, cmp_pc, cmp_i, comparison_data, results, backtested,
             ranking>>

liveVars == <<live_pc, duration_hours, elapsed, idx, account, held,
              exc, summary, evaluated, failed, obs, exit_cause>>

sigVars == <<strategy, data, generated, gs_status>>

costVars == <<cost_model, cost_call, cost_result, cost_status>>

fetchVars == <<dm_pc, cache, fetch_call, fetch_result>>

watchVars == <<watch_pc, watch_cash, watch_idx, bought, watch_obs>>

pendVars == <<pend_pc, pend_cash, pend_idx, positions, unfilled, pend_obs>>

winVars == <<win_pc, win_source, win_bars, win_prepared>>

vars == <<btVars, cmpVars, liveVars, sigVars, costVars, fetchVars, watchVars,
          pendVars, winVars>>

(***************************************************************************)
(* Bounds of the model.                                                    *)
(***************************************************************************)
MaxBars == 3
MaxStrategies == 3
NumSymbols == 2
MaxElapsed == 2
MaxShares == 2
MaxAge == 1
NumWatched == 6
MaxUnfilled == 2

(***************************************************************************)
(* Numbers.                                                                *)
(***************************************************************************)
Abs(k) == IF k < 0 THEN -k ELSE k

RECURSIVE GCD(_, _)
GCD(a, b) == IF b = 0 THEN a ELSE GCD(b, a % b)

NaN == [n |-> 0, d |-> 0]

IsNaN(x) == x.d = 0

Rat(n, d) ==
    IF d = 0 THEN NaN
    ELSE LET g == GCD(Abs(n), Abs(d))
             s == IF d < 0 THEN -1 ELSE 1
         IN  [n |-> (s * n) \div g, d |-> (s * d) \div g]

Num(k) == Rat(k, 1)

\* Sums are taken over the least common denominator, which keeps the
\* integers small.
Add(x, y) == IF IsNaN(x) \/ IsNaN(y) THEN NaN
             ELSE LET g == GCD(x.d, y.d)
                  IN  Rat(x.n * (y.d \div g) + y.n * (x.d \div g),
                          (x.d \div g) * y.d)

Sub(x, y) == IF IsNaN(x) \/ IsNaN(y) THEN NaN
             ELSE LET g == GCD(x.d, y.d)
                  IN  Rat(x.n * (y.d \div g) - y.n * (x.d \div g),
                          (x.d \div g) * y.d)

Mul(x, y) == IF IsNaN(x) \/ IsNaN(y) THEN NaN
             ELSE Rat(x.n * y.n, x.d * y.d)

Div(x, y) == IF IsNaN(x) \/ IsNaN(y) THEN NaN
             ELSE Rat(x.n * y.d, x.d * y.n)

\* The comparisons of pandas: false when an operand is missing.
Less(x, y) == ~IsNaN(x) /\ ~IsNaN(y) /\ x.n * y.d < y.n * x.d

LessEq(x, y) == ~IsNaN(x) /\ ~IsNaN(y) /\ x.n * y.d <= y.n * x.d

(***************************************************************************)
(* pandas Series operations used by the engine.                            *)
(***************************************************************************)
AsSeries(ints) == [i \in 1..Len(ints) |-> Num(ints[i])]

\* Series.replace(old, new)
Replace(s, old, new) == [i \in 1..Len(s) |-> IF s[i] = old THEN new ELSE s[i]]

\* Series.bfill(): each missing value takes the next valid one.
RECURSIVE BFill(_)
BFill(s) ==
    IF Len(s) = 0 THEN <<>>
    ELSE LET rest == BFill(Tail(s))
         IN  IF IsNaN(Head(s)) /\ Len(rest) > 0 THEN <<Head(rest)>> \o rest
             ELSE <<Head(s)>> \o rest

\* No fill at all: missing values stay missing.
NoFill(s) == s

\* Series.ffill(): each missing value takes the last valid one before it.
RECURSIVE FFillFrom(_, _)
FFillFrom(last, s) ==
    IF Len(s) = 0 THEN <<>>
    ELSE LET cur == IF IsNaN(Head(s)) THEN last ELSE Head(s)
         IN  <<cur>> \o FFillFrom(cur, Tail(s))

FFill(s) == FFillFrom(NaN, s)

\* Series.fillna(v)
FillNa(s, v) == [i \in 1..Len(s) |-> IF IsNaN(s[i]) THEN v ELSE s[i]]

\* Series.shift(1)
Shift1(s) == [i \in 1..Len(s) |-> IF i = 1 THEN NaN ELSE s[i - 1]]

\* Series.pct_change(): s / s.shift(1) - 1
PctChange(s) ==
    LET prev == Shift1(s)
    IN  [i \in 1..Len(s) |-> Sub(Div(s[i], prev[i]), Num(1))]

SeriesMul(a, b) == [i \in 1..Len(a) |-> Mul(a[i], b[i])]

ScalarAdd(k, s) == [i \in 1..Len(s) |-> Add(k, s[i])]

ScalarMul(k, s) == [i \in 1..Len(s) |-> Mul(k, s[i])]

\* Series.cumprod(): skipna, a missing entry stays missing and is left out
\* of the running product.
RECURSIVE CumProdFrom(_, _)
CumProdFrom(acc, s) ==
    IF Len(s) = 0 THEN <<>>
    ELSE IF IsNaN(Head(s)) THEN <<NaN>> \o CumProdFrom(acc, Tail(s))
    ELSE LET p == Mul(acc, Head(s))
         IN  <<p>> \o CumProdFrom(p, Tail(s))

CumProd(s) == CumProdFrom(Num(1), s)

\* Series.dropna()
DropNa(s) == SelectSeq(s, LAMBDA x : ~IsNaN(x))

RECURSIVE SumOf(_)
SumOf(s) == IF Len(s) = 0 THEN Num(0) ELSE Add(Head(s), SumOf(Tail(s)))

\* Series.mean() of a series without missing values; NaN when it is empty.
Mean(s) == Div(SumOf(s), Num(Len(s)))

\* The square of Series.std(): the sample variance, NaN for fewer than
\* two values.
Variance(s) ==
    IF Len(s) < 2 THEN NaN
    ELSE LET mu == Mean(s)
             sq == [i \in 1..Len(s) |-> Mul(Sub(s[i], mu), Sub(s[i], mu))]
         IN  Div(SumOf(sq), Num(Len(s) - 1))

\* Series.expanding().max(): the largest valid value so far, NaN as long as
\* there is none.
RECURSIVE ExpandingMaxFrom(_, _)
ExpandingMaxFrom(best, s) ==
    IF Len(s) = 0 THEN <<>>
    ELSE LET cur == IF IsNaN(Head(s)) THEN best
                    ELSE IF IsNaN(best) \/ Less(best, Head(s)) THEN Head(s)
                    ELSE best
         IN  <<cur>> \o ExpandingMaxFrom(cur, Tail(s))

ExpandingMax(s) == ExpandingMaxFrom(NaN, s)

\* Series.min(): the smallest valid value, NaN when there is none.
RECURSIVE SeriesMin(_)
SeriesMin(s) ==
    IF Len(s) = 0 THEN NaN
    ELSE LET rest == SeriesMin(Tail(s))
         IN  IF IsNaN(Head(s)) THEN rest
             ELSE IF IsNaN(rest) \/ Less(Head(s), rest) THEN Head(s)
             ELSE rest

\* (s > 0).sum()
CountPositive(s) == Cardinality({i \in 1..Len(s) : Less(Num(0), s[i])})

\* (s != 0).sum(): x != 0 is true of a missing x.
CountNotEqualZero(s) ==
    Cardinality({i \in 1..Len(s) : IsNaN(s[i]) \/ s[i] # Num(0)})

(***************************************************************************)
(* StrategyBase.calculate_positions and StrategyBase.backtest.             *)
(***************************************************************************)
calculate_positions(sig) ==
    FillNa(FFill(Replace(AsSeries(sig), Num(0), NaN)), Num(0))

calculate_returns(cl) == PctChange(AsSeries(cl))

\* The position of the same bar, not of the bar before.
StrategyReturnsSameBar(pos, ret) == SeriesMul(pos, ret)

StrategyReturns(pos, ret) == SeriesMul(Shift1(pos), ret)

EquityCurve(capital, sret) == ScalarMul(Num(capital), CumProd(ScalarAdd(Num(1), sret)))

\* equity.iloc[-1] raises IndexError on a table without bars.
BacktestStatus(eq) == IF Len(eq) = 0 THEN "raised" ELSE "ok"

Signals == {1, -1, 0}
Closes == {1, 2}
Capitals == {100, 10000}

\* The tables one edit away from the current one: one more bar, or the signal
\* of one bar changed.  Two tables that agree on their first bars are joined
\* by a chain of such edits that leaves those bars alone.
AppendedTables ==
    IF Len(signal) < MaxBars
    THEN {<<Append(signal, s), Append(close, c)>> : s \in Signals, c \in Closes}
    ELSE {}

RevisedTables ==
    {<<[signal EXCEPT ![k] = s], close>> :
        k \in 1..Len(signal), s \in Signals}

\* sharpe of lines 88-89.  sqrt(252) * mean / std is not a rational, so the
\* model keeps sign(sharpe) * sharpe^2 = sign(mean) * 252 * mean^2 / std^2,
\* which is 0, negative or positive as sharpe is and orders as sharpe does.
SharpeRatio(sret) ==
    LET r == DropNa(sret)
        mu == Mean(r)
        var == Variance(r)
    IN  IF Less(Num(0), var)
        THEN Mul(Num(IF mu.n < 0 THEN -252 ELSE 252), Div(Mul(mu, mu), var))
        ELSE Num(0)

\* max_dd of lines 91-95.  With the prices of the model the equity is never
\* negative, so a peak of 0 divides 0 only, which is NaN.
MaxDrawdown(eq) ==
    LET peak == ExpandingMax(eq)
        drawdown == [i \in 1..Len(eq) |-> Div(Sub(eq[i], peak[i]), peak[i])]
    IN  SeriesMin(drawdown)

\* win_rate of lines 97-100
WinRate(sret) ==
    LET winning_trades == CountPositive(sret)
        total_trades == CountNotEqualZero(sret)
    IN  IF total_trades > 0 THEN Rat(winning_trades, total_trades) ELSE Num(0)

\* The metrics backtest returns (lines 85-107); eq is not empty.
Metrics(capital, sret, eq) ==
    [total_return |-> Sub(Div(eq[Len(eq)], Num(capital)), Num(1)),
     sharpe_ratio |-> SharpeRatio(sret),
     max_drawdown |-> MaxDrawdown(eq),
     win_rate |-> WinRate(sret),
     total_trades |-> CountNotEqualZero(sret)]

Backtest(sig, cl, capital) ==
    /\ signal' = sig
    /\ close' = cl
    /\ initial_capital' = capital
    /\ position' = calculate_positions(sig)
    /\ returns' = calculate_returns(cl)
    /\ strategy_returns' = StrategyReturns(position', returns')
    /\ equity' = EquityCurve(capital, strategy_returns')
    /\ metrics' = IF Len(equity') = 0 THEN <<>>
                  ELSE Metrics(capital, strategy_returns', equity')
    /\ bt_status' = BacktestStatus(equity')
    /\ UNCHANGED <<cmpVars, liveVars, sigVars, costVars, fetchVars, watchVars, pendVars, winVars>>

BacktestFirst ==
    /\ bt_status = "none"
    /\ \E capital \in Capitals : Backtest(<<>>, <<>>, capital)

BacktestLonger ==
    /\ bt_status # "none"
    /\ \E t \in AppendedTables : Backtest(t[1], t[2], initial_capital)

BacktestRevised ==
    /\ bt_status # "none"
    /\ \E t \in RevisedTables : Backtest(t[1], t[2], initial_capital)

InitBacktest ==
    /\ signal = <<>>
    /\ close = <<>>
    /\ initial_capital = 10000
    /\ position = <<>>
    /\ returns = <<>>
    /\ strategy_returns = <<>>
    /\ equity = <<>>
    /\ metrics = <<>>
    /\ bt_status = "none"

NextBacktest == BacktestFirst \/ BacktestLonger \/ BacktestRevised

(***************************************************************************)
(* StrategyComparison.run_comparison.  A strategy is what its backtest     *)
(* does on the shared table: it raises, or it returns results with a       *)
(* Sharpe ratio.  A strategy's name is its place in the list; a row keeps  *)
(* the name and the Sharpe ratio, the columns the ranking reads.           *)
(***************************************************************************)
SharpeRatios == {-1, 0, 2}

Outcomes == {[fails |-> TRUE, sharpe |-> 0]}
                \cup {[fails |-> FALSE, sharpe |-> v] : v \in SharpeRatios}

StrategyLists == UNION {[1..n -> Outcomes] : n \in 0..MaxStrategies}

Row(name, res) == [Strategy |-> name, Sharpe |-> res.sharpe]

\* Rows in ascending order of Sharpe ratio.
RECURSIVE InsertAscending(_, _)
InsertAscending(row, sorted) ==
    IF Len(sorted) = 0 THEN <<row>>
    ELSE IF row.Sharpe < Head(sorted).Sharpe THEN <<row>> \o sorted
    ELSE <<Head(sorted)>> \o InsertAscending(row, Tail(sorted))

RECURSIVE SortAscending(_)
SortAscending(rows) ==
    IF Len(rows) = 0 THEN <<>>
    ELSE InsertAscending(Head(rows), SortAscending(Tail(rows)))

RECURSIVE InsertDescending(_, _)
InsertDescending(row, sorted) ==
    IF Len(sorted) = 0 THEN <<row>>
    ELSE IF row.Sharpe > Head(sorted).Sharpe THEN <<row>> \o sorted
    ELSE <<Head(sorted)>> \o InsertDescending(row, Tail(sorted))

\* df.sort_values('Sharpe Ratio', ascending=False).  The order pandas gives
\* to rows of equal Sharpe ratio is not modelled.
RECURSIVE SortDescending(_)
SortDescending(rows) ==
    IF Len(rows) = 0 THEN <<>>
    ELSE InsertDescending(Head(rows), SortDescending(Tail(rows)))

\* pd.DataFrame([]) has no columns: sort_values('Sharpe Ratio') raises
\* KeyError.
HasSharpeColumn(rows) == Len(rows) > 0

RunComparison ==
    /\ cmp_pc = "idle"
    /\ \E list \in StrategyLists : strategies' = list
    /\ cmp_pc' = "loop"
    /\ cmp_i' = 1
    /\ comparison_data' = <<>>
    /\ UNCHANGED <<results, backtested, ranking, btVars, liveVars, sigVars, costVars, fetchVars, watchVars, pendVars, winVars>>

\* try: strategy.backtest returns, the row is appended.
BacktestReturns ==
    /\ cmp_pc = "loop"
    /\ cmp_i <= Len(strategies)
    /\ ~strategies[cmp_i].fails
    /\ backtested' = backtested \cup {cmp_i}
    /\ results' = results \cup {cmp_i}
    /\ comparison_data' = Append(comparison_data, Row(cmp_i, strategies[cmp_i]))
    /\ cmp_i' = cmp_i + 1
    /\ UNCHANGED <<strategies, cmp_pc, ranking, btVars, liveVars, sigVars, costVars, fetchVars, watchVars, pendVars, winVars>>

\* except Exception: the failure is printed and the loop goes on.
BacktestRaises ==
    /\ cmp_pc = "loop"
    /\ cmp_i <= Len(strategies)
    /\ strategies[cmp_i].fails
    /\ backtested' = backtested \cup {cmp_i}
    /\ cmp_i' = cmp_i + 1
    /\ UNCHANGED <<strategies, cmp_pc, comparison_data, results, ranking, btVars, liveVars, sigVars, costVars, fetchVars, watchVars, pendVars, winVars>>

SortAndReturn ==
    /\ cmp_pc = "loop"
    /\ cmp_i > Len(strategies)
    /\ IF HasSharpeColumn(comparison_data)
       THEN /\ ranking' = SortDescending(comparison_data)
            /\ cmp_pc' = "returned"
       ELSE /\ ranking' = <<>>
            /\ cmp_pc' = "raised"
    /\ UNCHANGED <<strategies, cmp_i, comparison_data, results, backtested, btVars, liveVars, sigVars, costVars, fetchVars, watchVars, pendVars, winVars>>

InitComparison ==
    /\ strategies = <<>>
    /\ cmp_pc = "idle"
    /\ cmp_i = 1
    /\ comparison_data = <<>>
    /\ results = {}
    /\ backtested = {}
    /\ ranking = <<>>

NextComparison ==
    RunComparison \/ BacktestReturns \/ BacktestRaises \/ SortAndReturn

(***************************************************************************)
(* LivePaperTrader.  The brokerage, the data source and the strategy are   *)
(* external: each call either fails or returns one of a few values.  An    *)
(* order the brokerage accepts is filled at once.  Time is counted in      *)
(* check intervals and advances while run sleeps.                          *)
(***************************************************************************)
SymbolNames == <<"AAPL", "MSFT", "GOOGL">>
symbols == SubSeq(SymbolNames, 1, NumSymbols)
SymbolSet == {symbols[k] : k \in 1..Len(symbols)}

CashLevels == {0, 15}
Prices == {2, 4}
CashFractionPct == 20

DurationArgs == {<<>>} \cup {<<h>> : h \in 0..MaxElapsed}

\* `if duration_hours:` is false for None and for 0.
Truthy(d) == Len(d) = 1 /\ d[1] # 0

\* int(cash * 0.2 / latest_price), for cash and price not negative.
OrderQty(cash, price) == (cash * CashFractionPct) \div (price * 100)

\* The orders the decision of lines 121-142 places: a buy although a
\* position is open.
DecideIgnoringPosition(sig, seen, cash, price) ==
    IF sig = 1
    THEN IF OrderQty(cash, price) > 0
         THEN <<[side |-> "buy", qty |-> OrderQty(cash, price)]>>
         ELSE <<>>
    ELSE IF sig = -1 /\ seen # 0
    THEN <<[side |-> "sell", qty |-> Abs(seen)]>>
    ELSE <<>>

\* The orders the decision of lines 121-142 places; seen is the quantity
\* get_current_position returned, 0 for None.
Decide(sig, seen, cash, price) ==
    IF sig = 1 /\ seen = 0
    THEN IF OrderQty(cash, price) > 0
         THEN <<[side |-> "buy", qty |-> OrderQty(cash, price)]>>
         ELSE <<>>
    ELSE IF sig = -1 /\ seen # 0
    THEN <<[side |-> "sell", qty |-> Abs(seen)]>>
    ELSE <<>>

\* get_current_position: the open position, or None when there is none or
\* when the lookup fails (the bare except).
LookupResults(sym) == {held[sym], 0}

\* The shares an order adds to the position.
Shares(order) == IF order.side = "buy" THEN order.qty ELSE -order.qty

\* Whether the brokerage can accept the order: it keeps a position within
\* 0..MaxShares.
Acceptable(sym, order) ==
    LET after == held[sym] + Shares(order)
    IN  after >= 0 /\ after <= MaxShares

\* place_order on the order of the decision: submit_order accepts it, or
\* raises, and then the except of place_order logs the failure and the
\* position stays as it is.
Submitted(sym, orders, ok) ==
    IF Len(orders) = 1 /\ ok
    THEN [held EXCEPT ![sym] = @ + Shares(orders[1])]
    ELSE held

\* An exception of the symbol's try block leaves run.
SymbolErrorPropagates == [pc |-> "finally", exc |-> "Exception", cause |-> "symbol_error"]

\* except Exception (lines 144-145): logged, the for loop goes on.
SymbolErrorHandler == [pc |-> "symbol", exc |-> "none", cause |-> "none"]

\* What one ticker.history call of fetch_stock_data can do: return bars,
\* return an empty table, or raise.
AttemptOutcomes == {"bars", "empty", "error"}

\* for attempt in range(3).
FetchAttempts == 3

AttemptRuns == [1..FetchAttempts -> AttemptOutcomes]

\* The for loop of lines 141-163 going on to the last attempt and keeping
\* the bars of the last one that returned some.
TryYahooToTheEnd(outcomes, k) ==
    IF \E j \in k..FetchAttempts : outcomes[j] = "bars"
    THEN [source |-> "yahoo", contacts |-> FetchAttempts]
    ELSE [source |-> "none", contacts |-> FetchAttempts]

\* The for loop of lines 141-163 from attempt k on: the first attempt that
\* returns bars ends the call; contacts counts the calls of ticker.history.
RECURSIVE TryYahoo(_, _)
TryYahoo(outcomes, k) ==
    IF k > FetchAttempts
    THEN [source |-> "none", contacts |-> FetchAttempts]
    ELSE IF outcomes[k] = "bars"
    THEN [source |-> "yahoo", contacts |-> k]
    ELSE TryYahoo(outcomes, k + 1)

\* fetch_stock_data: cache_hit says that the cache file is valid and could
\* be read; outcomes are the outcomes of the attempts, as far as they are
\* made.  The result names where the returned bars come from, or the error
\* that is raised.
fetch_stock_data(cache_hit, outcomes, use_synthetic_on_fail, force_refresh) ==
    IF ~force_refresh /\ cache_hit
    THEN [source |-> "cache", contacts |-> 0]
    ELSE LET y == TryYahoo(outcomes, 1)
         IN  IF y.source = "yahoo" THEN y
             ELSE IF use_synthetic_on_fail
             THEN [source |-> "synthetic", contacts |-> y.contacts]
             ELSE [source |-> "ValueError", contacts |-> y.contacts]

\* The sources of the bars of execute_trading_cycle (lines 104-108), which
\* calls fetch_stock_data(symbol, start, end) with the default arguments.
LiveFetchSources ==
    {fetch_stock_data(hit, o, TRUE, FALSE).source :
        hit \in BOOLEAN, o \in AttemptRuns}

NoObs == [sym |-> "", stage |-> "none", source |-> "none", signal |-> 0,
          price |-> 0, seen |-> 0, cash |-> 0, orders |-> <<>>, accepted |-> FALSE]

Run ==
    /\ live_pc = "idle"
    /\ \E d \in DurationArgs : duration_hours' = d
    /\ elapsed' = 0
    /\ live_pc' = "loop"
    /\ UNCHANGED <<idx, account, held, exc, summary, evaluated,
                   failed, obs, exit_cause, btVars, cmpVars,
                   sigVars, costVars, fetchVars, watchVars, pendVars, winVars>>

\* now.weekday() < 5: execute_trading_cycle is called.
Weekday ==
    /\ live_pc = "loop"
    /\ live_pc' = "cycle"
    /\ UNCHANGED <<duration_hours, elapsed, idx, account, held, exc,
                   summary, evaluated, failed, obs, exit_cause, btVars, cmpVars,
                   sigVars, costVars, fetchVars, watchVars, pendVars, winVars>>

Weekend ==
    /\ live_pc = "loop"
    /\ live_pc' = "duration"
    /\ UNCHANGED <<duration_hours, elapsed, idx, account, held, exc,
                   summary, evaluated, failed, obs, exit_cause, btVars, cmpVars,
                   sigVars, costVars, fetchVars, watchVars, pendVars, winVars>>

\* execute_trading_cycle: get_account_info returns.
CycleAccount ==
    /\ live_pc = "cycle"
    /\ \E cash \in CashLevels : account' = cash
    /\ idx' = 1
    /\ evaluated' = <<>>
    /\ failed' = {}
    /\ obs' = NoObs
    /\ live_pc' = "symbol"
    /\ UNCHANGED <<duration_hours, elapsed, held, exc, summary,
                   exit_cause, btVars, cmpVars,
                   sigVars, costVars, fetchVars, watchVars, pendVars, winVars>>

\* execute_trading_cycle: get_account_info raises, outside any try of the
\* cycle; the exception is not a KeyboardInterrupt and leaves the loop.
CycleAccountFails ==
    /\ live_pc = "cycle"
    /\ exc' = "Exception"
    /\ exit_cause' = "account_error"
    /\ live_pc' = "finally"
    /\ UNCHANGED <<duration_hours, elapsed, idx, account, held,
                   summary, evaluated, failed, obs, btVars, cmpVars,
                   sigVars, costVars, fetchVars, watchVars, pendVars, winVars>>

\* What follows a failure inside the symbol's try block.
AfterSymbolError(stage) ==
    LET h == SymbolErrorHandler
    IN  /\ evaluated' = Append(evaluated, symbols[idx])
        /\ failed' = failed \cup {symbols[idx]}
        /\ obs' = [NoObs EXCEPT !.sym = symbols[idx], !.stage = stage,
                                !.cash = account]
        /\ idx' = idx + 1
        /\ live_pc' = h.pc
        /\ exc' = h.exc
        /\ exit_cause' = IF h.pc = "symbol" THEN exit_cause ELSE h.cause

\* fetch_stock_data raises: an error outside its own handlers (the cache
\* path check, the generator of synthetic bars).
FetchFails ==
    /\ live_pc = "symbol"
    /\ idx <= Len(symbols)
    /\ AfterSymbolError("fetch_failed")
    /\ UNCHANGED <<duration_hours, elapsed, account, held, summary,
                   btVars, cmpVars,
                   sigVars, costVars, fetchVars, watchVars, pendVars, winVars>>

\* prepare_data or generate_signals raises, or the prepared table is empty
\* and iloc[-1] raises.
SignalFails ==
    /\ live_pc = "symbol"
    /\ idx <= Len(symbols)
    /\ AfterSymbolError("signal_failed")
    /\ UNCHANGED <<duration_hours, elapsed, account, held, summary,
                   btVars, cmpVars,
                   sigVars, costVars, fetchVars, watchVars, pendVars, winVars>>

\* The prepared table is taken to have a latest bar here; what the window
\* of line 101 leaves of the bars is WindowPrepare's matter.
\* The symbol is evaluated: fetch_stock_data returns bars, from the live
\* source, from the cache or synthetic ones; then latest signal and price, position lookup,
\* decision, and place_order for the order decided, if any.
Evaluate ==
    /\ live_pc = "symbol"
    /\ idx <= Len(symbols)
    /\ \E src \in LiveFetchSources, sig \in Signals, price \in Prices,
          seen \in LookupResults(symbols[idx]), ok \in BOOLEAN :
          LET sym    == symbols[idx]
              orders == Decide(sig, seen, account, price)
          IN  /\ ok => \A k \in 1..Len(orders) : Acceptable(sym, orders[k])
              /\ Len(orders) = 0 => ok
              /\ held' = Submitted(sym, orders, ok)
              /\ src # "ValueError"
              /\ obs' = [sym |-> sym, stage |-> "evaluated", source |-> src,
                         signal |-> sig, price |-> price, seen |-> seen, cash |-> account,
                         orders |-> orders, accepted |-> (Len(orders) = 1 /\ ok)]
              /\ evaluated' = Append(evaluated, sym)
              /\ failed' = IF Len(orders) = 1 /\ ~ok THEN failed \cup {sym} ELSE failed
              /\ idx' = idx + 1
    /\ UNCHANGED <<live_pc, duration_hours, elapsed, account, exc, summary,
                   exit_cause, btVars, cmpVars,
                   sigVars, costVars, fetchVars, watchVars, pendVars, winVars>>

\* The for loop is over: execute_trading_cycle returns.
CycleEnd ==
    /\ live_pc = "symbol"
    /\ idx > Len(symbols)
    /\ live_pc' = "duration"
    /\ UNCHANGED <<duration_hours, elapsed, idx, account, held, exc,
                   summary, evaluated, failed, obs, exit_cause, btVars, cmpVars,
                   sigVars, costVars, fetchVars, watchVars, pendVars, winVars>>

\* if duration_hours: elapsed >= duration_hours: break
DurationReached ==
    /\ live_pc = "duration"
    /\ Truthy(duration_hours) /\ elapsed >= duration_hours[1]
    /\ exit_cause' = "duration"
    /\ live_pc' = "finally"
    /\ UNCHANGED <<duration_hours, elapsed, idx, account, held, exc,
                   summary, evaluated, failed, obs, btVars, cmpVars,
                   sigVars, costVars, fetchVars, watchVars, pendVars, winVars>>

DurationLeft ==
    /\ live_pc = "duration"
    /\ ~(Truthy(duration_hours) /\ elapsed >= duration_hours[1])
    /\ live_pc' = "sleep"
    /\ UNCHANGED <<duration_hours, elapsed, idx, account, held, exc,
                   summary, evaluated, failed, obs, exit_cause, btVars, cmpVars,
                   sigVars, costVars, fetchVars, watchVars, pendVars, winVars>>

\* time.sleep(check_interval); time beyond MaxElapsed is not told apart.
Sleep ==
    /\ live_pc = "sleep"
    /\ elapsed' = IF elapsed < MaxElapsed THEN elapsed + 1 ELSE elapsed
    /\ live_pc' = "loop"
    /\ UNCHANGED <<duration_hours, idx, account, held, exc, summary,
                   evaluated, failed, obs, exit_cause, btVars, cmpVars,
                   sigVars, costVars, fetchVars, watchVars, pendVars, winVars>>

\* KeyboardInterrupt anywhere inside the try of run: caught, "Stopped by
\* user".
Interrupt ==
    /\ live_pc \in {"loop", "cycle", "symbol", "duration", "sleep"}
    /\ exit_cause' = "interrupt"
    /\ live_pc' = "finally"
    /\ UNCHANGED <<duration_hours, elapsed, idx, account, held, exc,
                   summary, evaluated, failed, obs, btVars, cmpVars,
                   sigVars, costVars, fetchVars, watchVars, pendVars, winVars>>

\* finally: get_account_info returns and the summary is logged; a pending
\* exception then propagates.
FinalSummary ==
    /\ live_pc = "finally"
    /\ summary' = TRUE
    /\ live_pc' = IF exc = "Exception" THEN "propagated" ELSE "returned"
    /\ UNCHANGED <<duration_hours, elapsed, idx, account, held, exc,
                   evaluated, failed, obs, exit_cause, btVars, cmpVars,
                   sigVars, costVars, fetchVars, watchVars, pendVars, winVars>>

\* finally: get_account_info raises before anything is logged.
FinalSummaryFails ==
    /\ live_pc = "finally"
    /\ exc' = "Exception"
    /\ live_pc' = "propagated"
    /\ UNCHANGED <<duration_hours, elapsed, idx, account, held,
                   summary, evaluated, failed, obs, exit_cause, btVars, cmpVars,
                   sigVars, costVars, fetchVars, watchVars, pendVars, winVars>>

InitLive ==
    /\ live_pc = "idle"
    /\ duration_hours = <<>>
    /\ elapsed = 0
    /\ idx = 1
    /\ account = 0
    /\ held = [sym \in SymbolSet |-> 0]
    /\ exc = "none"
    /\ summary = FALSE
    /\ evaluated = <<>>
    /\ failed = {}
    /\ obs = NoObs
    /\ exit_cause = "none"

NextLive ==
    \/ Run \/ Weekday \/ Weekend \/ CycleAccount \/ CycleAccountFails
    \/ FetchFails \/ SignalFails \/ Evaluate \/ CycleEnd
    \/ DurationReached \/ DurationLeft \/ Sleep \/ Interrupt
    \/ FinalSummary \/ FinalSummaryFails

\* The steps run takes by itself once it has been called, as long as the
\* clock advances and the calls it makes return.
LoopStep ==
    \/ Weekday \/ Weekend \/ CycleAccount \/ FetchFails \/ SignalFails
    \/ Evaluate \/ CycleEnd \/ DurationReached \/ DurationLeft \/ Sleep
    \/ FinalSummary

(***************************************************************************)
(* generate_signals of the five strategies.  A table is a function from    *)
(* the names of its columns to their values, one per bar; result[col] on   *)
(* a column the table lacks raises KeyError.                               *)
(***************************************************************************)
\* A missing column silently defaulted: a table with no signals is returned.
SilentDefault == [status |-> "returned", signal |-> <<>>]

\* What result[col] raises on a column the table lacks.
KeyError == [status |-> "KeyError", signal |-> <<>>]

Returned(sig) == [status |-> "returned", signal |-> sig]

\* A column of zeros on which result.loc[buy, 'signal'] = 1 and then
\* result.loc[sell, 'signal'] = -1 have been carried out; buy and sell are
\* the boolean masks, one value per bar.
Masked(buy, sell) ==
    [i \in 1..Len(buy) |-> IF sell[i] THEN -1 ELSE IF buy[i] THEN 1 ELSE 0]

\* f'rsi_{self.rsi_period}'
RsiColumn(rsi_period) == IF rsi_period = 14 THEN "rsi_14" ELSE "rsi_7"

\* The masks a > b, a <= b and a & b of two columns.
Above(a, b) == [i \in 1..Len(a) |-> Less(b[i], a[i])]

NotAbove(a, b) == [i \in 1..Len(a) |-> LessEq(a[i], b[i])]

Both(a, b) == [i \in 1..Len(a) |-> a[i] /\ b[i]]

\* A column that holds v on every bar of the column s.
Level(s, v) == [i \in 1..Len(s) |-> Num(v)]

\* Momentum deciding each bar from that bar alone.
MomentumLevelSignals(rsi_period, threshold, table) ==
    LET configured == RsiColumn(rsi_period)
        rsi_col == IF configured \notin DOMAIN table THEN "rsi_14" ELSE configured
    IN  IF rsi_col \notin DOMAIN table THEN KeyError
        ELSE LET rsi == AsSeries(table[rsi_col])
                 thr == Level(rsi, threshold)
             IN  Returned(Masked(Above(rsi, thr), Above(thr, rsi)))

\* MomentumStrategy.generate_signals
MomentumSignals(rsi_period, threshold, table) ==
    LET configured == RsiColumn(rsi_period)
        rsi_col == IF configured \notin DOMAIN table THEN "rsi_14" ELSE configured
    IN  IF rsi_col \notin DOMAIN table THEN KeyError
        ELSE LET rsi == AsSeries(table[rsi_col])
                 rsi_prev == Shift1(rsi)
                 thr == Level(rsi, threshold)
             IN  Returned(Masked(Both(Above(rsi, thr), NotAbove(rsi_prev, thr)),
                                 Both(Above(thr, rsi), NotAbove(thr, rsi_prev))))

\* MACDStrategy.generate_signals
MACDSignals(table) ==
    IF ~({"macd", "macd_signal"} \subseteq DOMAIN table) THEN KeyError
    ELSE LET macd == AsSeries(table["macd"])
             macd_signal == AsSeries(table["macd_signal"])
             macd_prev == Shift1(macd)
             signal_prev == Shift1(macd_signal)
         IN  Returned(Masked(Both(Above(macd, macd_signal),
                                  NotAbove(macd_prev, signal_prev)),
                             Both(Above(macd_signal, macd),
                                  NotAbove(signal_prev, macd_prev))))

\* MeanReversionStrategy.generate_signals
MeanReversionSignals(rsi_oversold, rsi_overbought, table) ==
    IF "rsi_14" \notin DOMAIN table THEN KeyError
    ELSE LET rsi == AsSeries(table["rsi_14"])
         IN  Returned(Masked(Above(Level(rsi, rsi_oversold), rsi),
                             Above(rsi, Level(rsi, rsi_overbought))))

\* BollingerBreakoutStrategy.generate_signals
BollingerBreakoutSignals(table) ==
    IF ~({"close", "bb_upper", "bb_lower"} \subseteq DOMAIN table) THEN KeyError
    ELSE LET cl == AsSeries(table["close"])
             bb_upper == AsSeries(table["bb_upper"])
             bb_lower == AsSeries(table["bb_lower"])
         IN  Returned(Masked(Above(cl, bb_upper), Above(bb_lower, cl)))

\* f'sma_{period}'
SmaColumn(period) == IF period = 50 THEN "sma_50" ELSE "sma_200"

\* Trend-Following signalling the crossings only: the bar on which the
\* fast average comes to lie above (below) the slow one.
TrendCrossoverSignals(fast_period, slow_period, table) ==
    LET fast_col == SmaColumn(fast_period)
        slow_col == SmaColumn(slow_period)
    IN  IF ~({fast_col, slow_col} \subseteq DOMAIN table) THEN KeyError
        ELSE LET fast == AsSeries(table[fast_col])
                 slow == AsSeries(table[slow_col])
             IN  Returned(Masked(Both(Above(fast, slow),
                                      NotAbove(Shift1(fast), Shift1(slow))),
                                 Both(Above(slow, fast),
                                      NotAbove(Shift1(slow), Shift1(fast)))))

\* TrendFollowingStrategy.generate_signals
TrendFollowingSignals(fast_period, slow_period, table) ==
    LET fast_col == SmaColumn(fast_period)
        slow_col == SmaColumn(slow_period)
    IN  IF ~({fast_col, slow_col} \subseteq DOMAIN table) THEN KeyError
        ELSE LET fast == AsSeries(table[fast_col])
                 slow == AsSeries(table[slow_col])
             IN  Returned(Masked(Above(fast, slow), Above(slow, fast)))

\* The values of the indicator columns the tables of the model hold.
RsiValues == {40, 50, 60}
RsiLevels == {20, 30, 50, 70, 80}
MacdValues == {0, 1}
SmaValues == {1, 2}
BandCloses == {1, 2, 3}
UpperBands == {2, 3}
LowerBands == {1, 2}
RsiPeriods == {7, 14}

\* The columns of n bars with values of vals.
Columns(n, vals) == [1..n -> vals]

\* The table t without the columns that are not in present.
Restrict(t, present) == [c \in present \cap DOMAIN t |-> t[c]]

\* Five bars, the oscillator crossing the threshold upward once, between
\* the second bar and the third.
CrossingTable ==
    [close |-> <<100, 101, 99, 98, 103>>, rsi_14 |-> <<40, 40, 60, 60, 60>>]

\* The call strategy.generate_signals(table) with outcome r.
GenerateSignals(strat, table, r) ==
    /\ strategy' = strat
    /\ data' = table
    /\ generated' = r.signal
    /\ gs_status' = r.status
    /\ UNCHANGED <<btVars, cmpVars, liveVars, costVars, fetchVars, watchVars, pendVars, winVars>>

MomentumGenerate ==
    /\ gs_status = "none"
    /\ \E rsi_period \in RsiPeriods, n \in 0..MaxBars,
          present \in SUBSET {"rsi_7", "rsi_14"} :
          \E a \in Columns(n, RsiValues), b \in Columns(n, RsiValues) :
             LET table == Restrict([rsi_7 |-> a, rsi_14 |-> b], present)
             IN  GenerateSignals([name |-> "momentum", rsi_period |-> rsi_period,
                                  threshold |-> 50],
                                 table, MomentumSignals(rsi_period, 50, table))

MomentumCrossing ==
    /\ gs_status = "none"
    /\ GenerateSignals([name |-> "momentum", rsi_period |-> 14, threshold |-> 50],
                       CrossingTable, MomentumSignals(14, 50, CrossingTable))

MACDGenerate ==
    /\ gs_status = "none"
    /\ \E n \in 0..MaxBars, present \in SUBSET {"macd", "macd_signal"} :
          \E a \in Columns(n, MacdValues), b \in Columns(n, MacdValues) :
             LET table == Restrict([macd |-> a, macd_signal |-> b], present)
             IN  GenerateSignals([name |-> "MACD"], table, MACDSignals(table))

MeanReversionGenerate ==
    /\ gs_status = "none"
    /\ \E n \in 0..MaxBars, present \in SUBSET {"rsi_14"} :
          \E a \in Columns(n, RsiLevels) :
             LET table == Restrict([rsi_14 |-> a], present)
             IN  GenerateSignals([name |-> "Mean Reversion", rsi_oversold |-> 30,
                                  rsi_overbought |-> 70],
                                 table, MeanReversionSignals(30, 70, table))

BollingerBreakoutGenerate ==
    /\ gs_status = "none"
    /\ \E n \in 0..MaxBars, present \in SUBSET {"close", "bb_upper", "bb_lower"} :
          \E c \in Columns(n, BandCloses), u \in Columns(n, UpperBands),
             l \in Columns(n, LowerBands) :
             LET table == Restrict([close |-> c, bb_upper |-> u, bb_lower |-> l],
                                   present)
             IN  GenerateSignals([name |-> "Bollinger Breakout"], table,
                                 BollingerBreakoutSignals(table))

TrendFollowingGenerate ==
    /\ gs_status = "none"
    /\ \E n \in 0..MaxBars, present \in SUBSET {"sma_50", "sma_200"} :
          \E a \in Columns(n, SmaValues), b \in Columns(n, SmaValues) :
             LET table == Restrict([sma_50 |-> a, sma_200 |-> b], present)
             IN  GenerateSignals([name |-> "Trend Following", fast_period |-> 50,
                                  slow_period |-> 200],
                                 table, TrendFollowingSignals(50, 200, table))

InitSignals ==
    /\ strategy = [name |-> "none"]
    /\ data = <<>>
    /\ generated = <<>>
    /\ gs_status = "none"

NextSignals ==
    \/ MomentumGenerate
    \/ MomentumCrossing
    \/ MACDGenerate
    \/ MeanReversionGenerate
    \/ BollingerBreakoutGenerate
    \/ TrendFollowingGenerate

(***************************************************************************)
(* TransactionCostCalculator.                                              *)
(***************************************************************************)
\* CostModel(): the defaults of the dataclass.
DefaultCostModel ==
    [commission_pct |-> Num(0), commission_min |-> Num(0),
     spread_pct |-> Rat(1, 100), slippage_pct |-> Rat(1, 20),
     market_impact |-> Num(0)]

\* The cost models of the model: the default, one with a commission, one
\* with a wide spread and no slippage, one free of every cost.
CostModels ==
    {DefaultCostModel,
     [DefaultCostModel EXCEPT !.commission_pct = Num(1), !.commission_min = Num(5)],
     [DefaultCostModel EXCEPT !.spread_pct = Rat(1, 2), !.slippage_pct = Num(0)],
     [DefaultCostModel EXCEPT !.spread_pct = Num(0), !.slippage_pct = Num(0)]}

CostPrices == {Num(100), Num(3), Rat(1, 2)}

Quantities == {Num(0), Num(10), Rat(1, 2), Num(-10)}

Sides == {"buy", "sell"}

\* The smaller of two numbers.
MinOf(x, y) == IF Less(y, x) THEN y ELSE x

\* max(x, y) of Python
Max(x, y) == IF Less(x, y) THEN y ELSE x

\* What a call raises, and what it returns.
Raised(err) == [status |-> err, value |-> <<>>]

ReturnedValue(v) == [status |-> "returned", value |-> v]

\* calculate_entry_cost dividing as numpy does: quantity 0 gives an
\* undefined effective price and no error.
EntryCostWithoutError(model, price, quantity, side) ==
    LET gross_value == Mul(price, quantity)
        commission == Max(Div(Mul(gross_value, model.commission_pct), Num(100)),
                          model.commission_min)
        spread_cost == Div(Mul(gross_value, model.spread_pct), Num(100))
        slippage_cost == Div(Mul(gross_value, model.slippage_pct), Num(100))
        total_cost == Add(Add(commission, spread_cost), slippage_cost)
    IN  ReturnedValue(
            [gross_value |-> gross_value, commission |-> commission,
             spread_cost |-> spread_cost, slippage_cost |-> slippage_cost,
             total_cost |-> total_cost,
             effective_price |->
                 IF side = "buy" THEN Div(Add(gross_value, total_cost), quantity)
                 ELSE Div(Sub(gross_value, total_cost), quantity)])

\* TransactionCostCalculator.calculate_entry_cost; the division by a zero
\* quantity raises ZeroDivisionError.
calculate_entry_cost(model, price, quantity, side) ==
    LET gross_value == Mul(price, quantity)
        commission == Max(Div(Mul(gross_value, model.commission_pct), Num(100)),
                          model.commission_min)
        spread_cost == Div(Mul(gross_value, model.spread_pct), Num(100))
        slippage_cost == Div(Mul(gross_value, model.slippage_pct), Num(100))
        total_cost == Add(Add(commission, spread_cost), slippage_cost)
    IN  IF quantity = Num(0) THEN Raised("ZeroDivisionError")
        ELSE ReturnedValue(
            [gross_value |-> gross_value, commission |-> commission,
             spread_cost |-> spread_cost, slippage_cost |-> slippage_cost,
             total_cost |-> total_cost,
             effective_price |->
                 IF side = "buy" THEN Div(Add(gross_value, total_cost), quantity)
                 ELSE Div(Sub(gross_value, total_cost), quantity)])

\* The cost of the entry less that of the exit.
RoundtripNet(model, entry_price, exit_price, quantity) ==
    LET entry == calculate_entry_cost(model, entry_price, quantity, "buy")
        exit == calculate_entry_cost(model, exit_price, quantity, "sell")
    IN  IF entry.status # "returned" THEN entry
        ELSE IF exit.status # "returned" THEN exit
        ELSE ReturnedValue(Sub(entry.value.total_cost, exit.value.total_cost))

\* TransactionCostCalculator.calculate_roundtrip_cost
calculate_roundtrip_cost(model, entry_price, exit_price, quantity) ==
    LET entry == calculate_entry_cost(model, entry_price, quantity, "buy")
        exit == calculate_entry_cost(model, exit_price, quantity, "sell")
    IN  IF entry.status # "returned" THEN entry
        ELSE IF exit.status # "returned" THEN exit
        ELSE ReturnedValue(Add(entry.value.total_cost, exit.value.total_cost))

\* TransactionCostCalculator(cost_model)
NewCalculator ==
    /\ cost_status = "none"
    /\ \E model \in CostModels : cost_model' = model
    /\ cost_status' = "ready"
    /\ UNCHANGED <<cost_call, cost_result, btVars, cmpVars, liveVars, sigVars,
                   fetchVars, watchVars, pendVars, winVars>>

EntryCost ==
    /\ cost_status = "ready"
    /\ \E price \in CostPrices, quantity \in Quantities, side \in Sides :
          LET r == calculate_entry_cost(cost_model, price, quantity, side)
          IN  /\ cost_call' = [op |-> "entry", price |-> price,
                               exit_price |-> price, quantity |-> quantity,
                               side |-> side]
              /\ cost_result' = r.value
              /\ cost_status' = r.status
    /\ UNCHANGED <<cost_model, btVars, cmpVars, liveVars, sigVars,
                   fetchVars, watchVars, pendVars, winVars>>

RoundtripCost ==
    /\ cost_status = "ready"
    /\ \E entry_price \in CostPrices, exit_price \in CostPrices,
          quantity \in Quantities :
          LET r == calculate_roundtrip_cost(cost_model, entry_price, exit_price,
                                            quantity)
          IN  /\ cost_call' = [op |-> "roundtrip", price |-> entry_price,
                               exit_price |-> exit_price, quantity |-> quantity,
                               side |-> "both"]
              /\ cost_result' = r.value
              /\ cost_status' = r.status
    /\ UNCHANGED <<cost_model, btVars, cmpVars, liveVars, sigVars,
                   fetchVars, watchVars, pendVars, winVars>>

InitCosts ==
    /\ cost_model = <<>>
    /\ cost_call = [op |-> "none", price |-> Num(0), exit_price |-> Num(0),
                    quantity |-> Num(0), side |-> "none"]
    /\ cost_result = <<>>
    /\ cost_status = "none"

NextCosts == NewCalculator \/ EntryCost \/ RoundtripCost

(***************************************************************************)
(* DataManager.fetch_stock_data and the cache.  A key stands for (symbol,  *)
(* start_date, end_date, interval); the bars of a table are told apart by  *)
(* a version; the age of a cache file is counted in whole days.            *)
(***************************************************************************)
Keys == {"k1", "k2"}

Versions == {1, 2}

\* settings.get('data.cache_expiry_days', 1)
cache_expiry_days == 1

Absent == [state |-> "absent", table |-> 0, age |-> 0]

\* What df.to_parquet(cache_path) can do: write the file, or raise and
\* leave the directory as it was (the exception is only logged).
SaveOutcomes == {"stored", "failed"}

\* The attempts as far as the call can make them: the live source fails
\* in one way (no bars, or an exception) until it returns bars, and no
\* attempt is made after the first that returns bars.
FetchRuns ==
    {o \in AttemptRuns :
        /\ \A k \in 1..FetchAttempts : o[k] = "bars" =>
              \A j \in k..FetchAttempts : o[j] = "bars"
        /\ \A j, k \in 1..FetchAttempts :
              (o[j] # "bars" /\ o[k] # "bars") => o[j] = o[k]}

\* A cache file is valid as long as its age is less than the expiry.
ValidUpToExpiry(entry) ==
    entry.state # "absent" /\ entry.age <= cache_expiry_days

\* DataManager._is_cache_valid
IsCacheValid(entry) ==
    entry.state # "absent" /\ entry.age < cache_expiry_days

\* The cache after to_parquet of version v for key.
Saved(key, v, save) ==
    CASE save = "stored" ->
            [cache EXCEPT ![key] = [state |-> "stored", table |-> v, age |-> 0]]
      [] save = "failed" -> cache

\* DataManager()
NewDataManager ==
    /\ dm_pc = "none"
    /\ dm_pc' = "ready"
    /\ UNCHANGED <<cache, fetch_call, fetch_result, btVars, cmpVars, liveVars,
                   sigVars, costVars, watchVars, pendVars, winVars>>

\* fetch_stock_data when the cache file is valid and force_refresh is off:
\* the loop of attempts is not reached.
FetchFromCache ==
    /\ dm_pc = "ready"
    /\ \E key \in Keys, use_synthetic_on_fail \in BOOLEAN :
          LET entry == cache[key]
              hit == IsCacheValid(entry)
              r == fetch_stock_data(hit, <<>>, use_synthetic_on_fail, FALSE)
          IN  /\ hit
              /\ fetch_call' = [key |-> key, force_refresh |-> FALSE,
                                use_synthetic_on_fail |-> use_synthetic_on_fail,
                                outcomes |-> <<>>, entry |-> entry]
              /\ fetch_result' = [source |-> r.source, contacts |-> r.contacts,
                                  table |-> entry.table]
    /\ UNCHANGED <<dm_pc, cache, btVars, cmpVars, liveVars, sigVars, costVars, watchVars, pendVars, winVars>>

\* fetch_stock_data otherwise: the attempts at the live source, then the
\* synthetic bars or the error; bars obtained are written to the cache.
FetchLive ==
    /\ dm_pc = "ready"
    /\ \E key \in Keys, force_refresh \in BOOLEAN,
          use_synthetic_on_fail \in BOOLEAN, outcomes \in FetchRuns :
          LET entry == cache[key]
              hit == IsCacheValid(entry)
              r == fetch_stock_data(hit, outcomes, use_synthetic_on_fail,
                                    force_refresh)
          IN  /\ ~(hit /\ ~force_refresh)
              /\ fetch_call' =
                    [key |-> key, force_refresh |-> force_refresh,
                     use_synthetic_on_fail |-> use_synthetic_on_fail,
                     outcomes |-> outcomes, entry |-> entry]
              /\ IF r.source = "ValueError"
                 THEN /\ fetch_result' = [source |-> r.source,
                                          contacts |-> r.contacts, table |-> 0]
                      /\ cache' = cache
                 ELSE \E v \in Versions, save \in SaveOutcomes :
                      /\ fetch_result' = [source |-> r.source,
                                          contacts |-> r.contacts, table |-> v]
                      /\ cache' = Saved(key, v, save)
    /\ UNCHANGED <<dm_pc, btVars, cmpVars, liveVars, sigVars, costVars, watchVars, pendVars, winVars>>

\* A day passes: every cache file is a day older.
DayPasses ==
    /\ dm_pc = "ready"
    /\ \E key \in Keys : cache[key].state # "absent" /\ cache[key].age < MaxAge
    /\ cache' = [key \in Keys |->
                    IF cache[key].state = "absent" \/ cache[key].age >= MaxAge
                    THEN cache[key]
                    ELSE [cache[key] EXCEPT !.age = @ + 1]]
    /\ UNCHANGED <<dm_pc, fetch_call, fetch_result, btVars, cmpVars, liveVars,
                   sigVars, costVars, watchVars, pendVars, winVars>>

InitFetch ==
    /\ dm_pc = "none"
    /\ cache = [key \in Keys |-> Absent]
    /\ fetch_call = [key |-> "none", force_refresh |-> FALSE,
                     use_synthetic_on_fail |-> FALSE, outcomes |-> <<>>,
                     entry |-> Absent]
    /\ fetch_result = [source |-> "none", contacts |-> 0, table |-> 0]

NextFetch == NewDataManager \/ FetchFromCache \/ FetchLive \/ DayPasses

(***************************************************************************)
(* execute_trading_cycle over a list of NumWatched symbols: the cash is    *)
(* read once, before the for loop, and every buy is sized from it.         *)
(***************************************************************************)
StartCash == {10, 20}

\* What get_current_position reports: a position of one share, or None.
Reported == {0, 1}

NoDecision == [stage |-> "none", price |-> 0, orders |-> <<>>, accepted |-> FALSE]

\* The value of the buy order among orders, at the latest price.
BuyValue(orders, price) ==
    IF Len(orders) = 1 /\ orders[1].side = "buy"
    THEN orders[1].qty * price
    ELSE 0

\* execute_trading_cycle: get_account_info returns.
WatchCycleStart ==
    /\ watch_pc = "idle"
    /\ \E cash \in StartCash : watch_cash' = cash
    /\ watch_idx' = 1
    /\ bought' = 0
    /\ watch_obs' = NoDecision
    /\ watch_pc' = "symbol"
    /\ UNCHANGED <<btVars, cmpVars, liveVars, sigVars, costVars, fetchVars,
                   pendVars, winVars>>

\* The symbol's try block: bars, latest signal and price, position lookup,
\* decision, and place_order, which the brokerage accepts or rejects.
WatchEvaluate ==
    /\ watch_pc = "symbol"
    /\ watch_idx <= NumWatched
    /\ \E sig \in Signals, price \in Prices, seen \in Reported, ok \in BOOLEAN :
          LET orders == Decide(sig, seen, watch_cash, price)
          IN  /\ Len(orders) = 0 => ok
              /\ bought' = IF ok THEN bought + BuyValue(orders, price) ELSE bought
              /\ watch_obs' = [stage |-> "evaluated", price |-> price,
                               orders |-> orders,
                               accepted |-> (Len(orders) = 1 /\ ok)]
    /\ watch_idx' = watch_idx + 1
    /\ UNCHANGED <<watch_pc, watch_cash, btVars, cmpVars, liveVars, sigVars,
                   costVars, fetchVars, pendVars, winVars>>

\* The symbol's try block raises: except Exception logs, the loop goes on.
WatchSymbolFails ==
    /\ watch_pc = "symbol"
    /\ watch_idx <= NumWatched
    /\ watch_obs' = [NoDecision EXCEPT !.stage = "failed"]
    /\ watch_idx' = watch_idx + 1
    /\ UNCHANGED <<watch_pc, watch_cash, bought, btVars, cmpVars, liveVars,
                   sigVars, costVars, fetchVars, pendVars, winVars>>

\* The for loop is over: execute_trading_cycle returns.
WatchCycleEnd ==
    /\ watch_pc = "symbol"
    /\ watch_idx > NumWatched
    /\ watch_pc' = "idle"
    /\ UNCHANGED <<watch_cash, watch_idx, bought, watch_obs, btVars, cmpVars,
                   liveVars, sigVars, costVars, fetchVars, pendVars, winVars>>

InitWatch ==
    /\ watch_pc = "idle"
    /\ watch_cash = 0
    /\ watch_idx = 1
    /\ bought = 0
    /\ watch_obs = NoDecision

NextWatch ==
    WatchCycleStart \/ WatchEvaluate \/ WatchSymbolFails \/ WatchCycleEnd

(***************************************************************************)
(* Consecutive cycles against a brokerage that accepts a market order at   *)
(* once and fills it later: get_position reports a position only after    *)
(* the fill.  Position lookups succeed here.                               *)
(***************************************************************************)
PendSymbols == <<"AAPL", "MSFT">>

PendSymbolSet == {PendSymbols[k] : k \in 1..Len(PendSymbols)}

NoPendObs == [sym |-> "", stage |-> "none", seen |-> 0, orders |-> <<>>,
              accepted |-> FALSE]

\* Whether the brokerage can accept the order: positions and unfilled buys
\* stay within their bounds.
PendAcceptable(sym, order) ==
    IF order.side = "buy"
    THEN /\ unfilled[sym] + order.qty <= MaxUnfilled
         /\ positions[sym] + unfilled[sym] + order.qty <= MaxShares
    ELSE order.qty <= positions[sym]

\* execute_trading_cycle: get_account_info returns.
PendCycleStart ==
    /\ pend_pc = "idle"
    /\ \E cash \in CashLevels : pend_cash' = cash
    /\ pend_idx' = 1
    /\ pend_obs' = NoPendObs
    /\ pend_pc' = "symbol"
    /\ UNCHANGED <<positions, unfilled, btVars, cmpVars, liveVars, sigVars,
                   costVars, fetchVars, watchVars,
                   winVars>>

\* The symbol's try block: bars, latest signal and price, get_position,
\* decision, and place_order.  An accepted buy is unfilled at first; an
\* accepted sell closes the position.
PendEvaluate ==
    /\ pend_pc = "symbol"
    /\ pend_idx <= Len(PendSymbols)
    /\ \E sig \in Signals, price \in Prices, ok \in BOOLEAN :
          LET sym    == PendSymbols[pend_idx]
              seen   == positions[sym]
              orders == Decide(sig, seen, pend_cash, price)
              placed == Len(orders) = 1 /\ ok
          IN  /\ ok => \A k \in 1..Len(orders) : PendAcceptable(sym, orders[k])
              /\ Len(orders) = 0 => ok
              /\ unfilled' = IF placed /\ orders[1].side = "buy"
                             THEN [unfilled EXCEPT ![sym] = @ + orders[1].qty]
                             ELSE unfilled
              /\ positions' = IF placed /\ orders[1].side = "sell"
                              THEN [positions EXCEPT ![sym] = @ - orders[1].qty]
                              ELSE positions
              /\ pend_obs' = [sym |-> sym, stage |-> "evaluated", seen |-> seen,
                              orders |-> orders, accepted |-> placed]
    /\ pend_idx' = pend_idx + 1
    /\ UNCHANGED <<pend_pc, pend_cash, btVars, cmpVars, liveVars, sigVars,
                   costVars, fetchVars, watchVars,
                   winVars>>

\* The for loop is over: execute_trading_cycle returns.
PendCycleEnd ==
    /\ pend_pc = "symbol"
    /\ pend_idx > Len(PendSymbols)
    /\ pend_pc' = "idle"
    /\ UNCHANGED <<pend_cash, pend_idx, positions, unfilled, pend_obs, btVars,
                   cmpVars, liveVars, sigVars, costVars, fetchVars, watchVars,
                   winVars>>

\* The brokerage fills the unfilled buy orders of a symbol.
OrderFilled ==
    /\ \E sym \in PendSymbolSet :
          /\ unfilled[sym] > 0
          /\ positions' = [positions EXCEPT ![sym] = @ + unfilled[sym]]
          /\ unfilled' = [unfilled EXCEPT ![sym] = 0]
    /\ UNCHANGED <<pend_pc, pend_cash, pend_idx, pend_obs, btVars, cmpVars,
                   liveVars, sigVars, costVars, fetchVars, watchVars,
                   winVars>>

InitPending ==
    /\ pend_pc = "idle"
    /\ pend_cash = 0
    /\ pend_idx = 1
    /\ positions = [sym \in PendSymbolSet |-> 0]
    /\ unfilled = [sym \in PendSymbolSet |-> 0]
    /\ pend_obs = NoPendObs

NextPending == PendCycleStart \/ PendEvaluate \/ PendCycleEnd \/ OrderFilled

(***************************************************************************)
(* The bars of one symbol of a live cycle: fetched for the last WindowDays *)
(* calendar days, then prepare_data, then the latest signal is read.  A    *)
(* table is its number of bars.                                            *)
(***************************************************************************)
\* start_date = end_date - timedelta(days=180)
WindowDays == 180

\* talib.SMA(close, timeperiod=200)
LongestPeriod == 200

\* The leading bars on which a column of add_all_indicators is NaN: a
\* moving average of a period has none before its period-th bar.
Warmups == {20 - 1, 50 - 1, LongestPeriod - 1, 12 - 1, 26 - 1, 14}

\* The most weekdays days consecutive calendar days hold.
Weekdays(days) == days - 2 * (days \div 7)

\* The numbers of bars fetch_stock_data returns for the window: daily bars
\* of the live source or of the cache, one per trading day at most; or the
\* synthetic bars, one per calendar day, both ends included.
WindowBars(source) ==
    IF source = "synthetic"
    THEN {WindowDays + 1}
    ELSE 1..Weekdays(WindowDays)

\* add_all_indicators: result.dropna() drops every bar on which a column is
\* NaN; a column whose period exceeds the table is NaN throughout.
BarsLeft(bars) ==
    LET dropped == CHOOSE w \in Warmups : \A v \in Warmups : v <= w
    IN  IF bars > dropped THEN bars - dropped ELSE 0

\* dm.fetch_stock_data(symbol, start, end) of lines 104-108.
WindowFetch ==
    /\ win_pc = "idle"
    /\ \E source \in {"yahoo", "cache", "synthetic"} :
          \E bars \in WindowBars(source) :
              /\ win_source' = source
              /\ win_bars' = bars
    /\ win_pc' = "fetched"
    /\ UNCHANGED <<win_prepared, btVars, cmpVars, liveVars, sigVars, costVars,
                   fetchVars, watchVars, pendVars>>

\* strategy.prepare_data(data), then generate_signals, which keeps the bars.
WindowPrepare ==
    /\ win_pc = "fetched"
    /\ win_prepared' = BarsLeft(win_bars)
    /\ win_pc' = "prepared"
    /\ UNCHANGED <<win_source, win_bars, btVars, cmpVars, liveVars, sigVars,
                   costVars, fetchVars, watchVars, pendVars>>

\* with_signals['signal'].iloc[-1]: the latest bar, or IndexError on a
\* table without bars.
WindowLatest ==
    /\ win_pc = "prepared"
    /\ win_pc' = IF win_prepared > 0 THEN "read" ELSE "IndexError"
    /\ UNCHANGED <<win_source, win_bars, win_prepared, btVars, cmpVars,
                   liveVars, sigVars, costVars, fetchVars, watchVars, pendVars>>

InitWindow ==
    /\ win_pc = "idle"
    /\ win_source = "none"
    /\ win_bars = 0
    /\ win_prepared = 0

NextWindow == WindowFetch \/ WindowPrepare \/ WindowLatest

Init ==
    /\ InitBacktest /\ InitComparison /\ InitLive /\ InitSignals /\ InitCosts
    /\ InitFetch
    /\ InitWatch
    /\ InitPending
    /\ InitWindow

SpecBacktest == Init /\ [][NextBacktest]_vars

SpecComparison == Init /\ [][NextComparison]_vars

SpecLive == Init /\ [][NextLive]_vars

\* run is a single thread: it takes its next step whenever it has one.
SpecLiveFair == Init /\ [][NextLive]_vars /\ WF_vars(LoopStep)

SpecSignals == Init /\ [][NextSignals]_vars

SpecCosts == Init /\ [][NextCosts]_vars

SpecFetch == Init /\ [][NextFetch]_vars

SpecWatch == Init /\ [][NextWatch]_vars

SpecPending == Init /\ [][NextPending]_vars

SpecWindow == Init /\ [][NextWindow]_vars

(***************************************************************************)
(* Claims about calculate_positions and backtest.                          *)
(***************************************************************************)
Min(a, b) == IF a < b THEN a ELSE b

Long == Num(1)
Flat == Num(0)

\* The bars after bar i up to bar k all carry Hold.
HoldRun(i, k) == \A j \in (i + 1)..k : signal[j] = 0

\* C1: every position is Flat (0) or Long (1), and a Sell makes the position
\* Flat at its bar and on every following bar up to the next Buy.
C1_PositionIsFlatOrLong ==
    /\ \A i \in 1..Len(position) : position[i] \in {Flat, Long}
    /\ \A i \in 1..Len(position) :
           signal[i] = -1 =>
               \A k \in i..Len(position) :
                   (\A j \in (i + 1)..k : signal[j] # 1) => position[k] = Flat

\* C2: no look-ahead.  When the table is replaced by one that agrees with it
\* on the signals of the first i bars, the positions of those i bars are the
\* same for both tables.
C2_NoLookAhead ==
    [][\A i \in 1..Min(Len(signal), Len(signal')) :
           SubSeq(signal, 1, i) = SubSeq(signal', 1, i)
               => SubSeq(position, 1, i) = SubSeq(position', 1, i)]_vars

\* A Hold bar followed by a Buy bar: the Hold bar is Flat, the Buy bar Long.
C2_Witness ==
    /\ Len(signal) >= 2
    /\ signal[1] = 0 /\ signal[2] = 1
    /\ position[1] = Flat /\ position[2] = Long

\* C3: a Hold bar has the position of the bar before it, and is Flat when no
\* Buy or Sell has fired up to it; a run of Hold bars after a Buy is Long
\* throughout.
C3_HoldCarriesForward ==
    /\ \A i \in 1..Len(signal) :
           signal[i] = 0 =>
               /\ i > 1 => position[i] = position[i - 1]
               /\ (\A j \in 1..i : signal[j] = 0) => position[i] = Flat
    /\ \A i \in 1..Len(signal) :
           signal[i] = 1 =>
               \A k \in i..Len(signal) : HoldRun(i, k) => position[k] = Long

\* A Buy followed by two Hold bars, Long on the last of them.
C3_Witness ==
    /\ Len(signal) >= 3
    /\ signal[1] = 1 /\ signal[2] = 0 /\ signal[3] = 0
    /\ position[3] = Long

\* close_i / close_{i-1} - 1, as one fraction.
SimpleReturn(prev, cur) == Rat(cur - prev, prev)

C4_ReturnOfPreviousPosition ==
    bt_status = "ok" =>
        \A i \in 2..Len(close) :
            strategy_returns[i] =
                Mul(position[i - 1], SimpleReturn(close[i - 1], close[i]))

C4_NoInfluenceOfLaterBars ==
    \A i \in 2..Min(Len(signal), Len(signal')) :
        (/\ SubSeq(signal, 1, i - 1) = SubSeq(signal', 1, i - 1)
         /\ SubSeq(close, 1, i) = SubSeq(close', 1, i))
            => strategy_returns[i] = strategy_returns'[i]

\* C4: the strategy return of every bar after the first is the position of
\* the bar before it times the bar's simple return, and it is the same for
\* two tables that agree on the closes up to that bar and on the signals
\* before it.
C4_StrategyReturn ==
    /\ [](C4_ReturnOfPreviousPosition)
    /\ [][C4_NoInfluenceOfLaterBars]_vars

\* Long on the first bar, a Sell on the second bar whose close has doubled:
\* the second bar earns the whole rise.
C4_Witness ==
    /\ bt_status = "ok"
    /\ Len(signal) >= 2
    /\ signal[1] = 1 /\ signal[2] = -1
    /\ close[1] = 1 /\ close[2] = 2
    /\ strategy_returns[2] = Num(1)

\* The product of 1 + strategy_return over the bars from..to, the bars whose
\* strategy return is undefined left out.
RECURSIVE Compounded(_, _)
Compounded(from, to) ==
    IF to < from THEN Num(1)
    ELSE IF IsNaN(strategy_returns[to]) THEN Compounded(from, to - 1)
    ELSE Mul(Compounded(from, to - 1), Add(Num(1), strategy_returns[to]))

\* C5: the equity curve has one value per bar, is initial_capital at the
\* first bar and initial_capital times the compounded strategy returns at
\* every bar.
C5_EquityCurve ==
    bt_status = "ok" =>
        /\ Len(equity) = Len(close)
        /\ equity[1] = Num(initial_capital)
        /\ \A i \in 1..Len(equity) :
               equity[i] = Mul(Num(initial_capital), Compounded(1, i))

(***************************************************************************)
(* Claims about run_comparison.                                            *)
(***************************************************************************)
NonFailing == {k \in 1..Len(strategies) : ~strategies[k].fails}

RowNames(rows) == {rows[k].Strategy : k \in 1..Len(rows)}

\* C6: given at least one strategy, whichever of them fail (one, several or
\* all), run_comparison does not raise, every non-failing strategy is run,
\* and the table returned has exactly one row per non-failing strategy and
\* none for a failing one.
C6_IsolatesFailures ==
    /\ Len(strategies) > 0 => cmp_pc # "raised"
    /\ cmp_pc = "returned" =>
           /\ NonFailing \subseteq backtested
           /\ RowNames(ranking) = NonFailing
           /\ Len(ranking) = Cardinality(NonFailing)

\* C7: the table returned is in descending order of Sharpe ratio.
C7_RankedBySharpe ==
    cmp_pc = "returned" =>
        \A k \in 1..(Len(ranking) - 1) : ranking[k].Sharpe >= ranking[k + 1].Sharpe

\* Two strategies supplied in ascending order of Sharpe ratio come back in
\* the other order.
C7_Witness ==
    /\ cmp_pc = "returned"
    /\ Len(comparison_data) >= 2
    /\ comparison_data[1].Sharpe < comparison_data[2].Sharpe
    /\ Len(ranking) = Len(comparison_data)
    /\ ranking[1].Sharpe > ranking[Len(ranking)].Sharpe

(***************************************************************************)
(* Claims about the live execution loop.                                   *)
(***************************************************************************)
\* q is the whole number of shares that the configured fraction of the cash
\* buys at the price.
IsFractionOfCash(q, cash, price) ==
    /\ q * price * 100 <= cash * CashFractionPct
    /\ (q + 1) * price * 100 > cash * CashFractionPct

OneBuy(o) ==
    /\ Len(o.orders) = 1
    /\ o.orders[1].side = "buy"
    /\ IsFractionOfCash(o.orders[1].qty, o.cash, o.price)

OneSell(o) ==
    /\ Len(o.orders) = 1
    /\ o.orders[1].side = "sell"
    /\ o.orders[1].qty = o.seen

C9_SymbolFailureIsolated ==
    /\ live_pc = "symbol" => evaluated = SubSeq(symbols, 1, idx - 1)
    /\ (live_pc \in {"duration", "sleep", "loop"} /\ evaluated # <<>>)
           => evaluated = symbols
    /\ failed \subseteq {evaluated[k] : k \in 1..Len(evaluated)}
    /\ exit_cause \in {"none", "interrupt", "duration", "account_error"}
    /\ live_pc \in {"loop", "cycle", "symbol", "duration", "sleep"} => exc = "none"

\* A cycle whose first symbol failed and whose last symbol got an order
\* accepted is over, and the loop is about to sleep.
C9_Witness ==
    /\ live_pc = "sleep"
    /\ evaluated = symbols
    /\ symbols[1] \in failed
    /\ obs.sym = symbols[Len(symbols)]
    /\ obs.accepted

\* C10: once run has returned or propagated an exception, the final summary
\* has been logged.
C10_SummaryOnExit ==
    live_pc \in {"returned", "propagated"} => summary

\* C11: the live loop leaves its polling cycle only on an external
\* cancellation or when the duration budget is reached; no failure of a
\* call made during a cycle (account lookup, position lookup, data fetch,
\* order submission) ends it.
C11_LoopLeftOnlyByCancelOrBudget ==
    exit_cause \in {"none", "interrupt", "duration"}

\* C12: on the live path a symbol whose data fetch failed is skipped for
\* the cycle: no signal is evaluated on synthetic bars and no order is
\* placed for it.
C12_FetchFailureSkipsSymbol ==
    obs.source = "synthetic" => obs.stage # "evaluated" /\ obs.orders = <<>>

(***************************************************************************)
(* The strategies' signals.                                                *)
(***************************************************************************)
\* Whether the table lacks a column generate_signals of strat needs; for
\* Momentum, whether it lacks both the column of its period and rsi_14.
Lacks(strat, table) ==
    CASE strat.name = "momentum" ->
            {RsiColumn(strat.rsi_period), "rsi_14"} \cap DOMAIN table = {}
      [] strat.name = "MACD" ->
            ~({"macd", "macd_signal"} \subseteq DOMAIN table)
      [] strat.name = "Mean Reversion" -> "rsi_14" \notin DOMAIN table
      [] strat.name = "Bollinger Breakout" ->
            ~({"close", "bb_upper", "bb_lower"} \subseteq DOMAIN table)
      [] strat.name = "Trend Following" ->
            ~({"sma_50", "sma_200"} \subseteq DOMAIN table)

\* The signals of crossings of the level thr by the integer column col.
Crossings(col, thr) ==
    [i \in 1..Len(col) |->
        IF i > 1 /\ col[i] < thr /\ col[i - 1] >= thr THEN -1
        ELSE IF i > 1 /\ col[i] > thr /\ col[i - 1] <= thr THEN 1
        ELSE 0]

\* The column Momentum is to read: the one of its period, or rsi_14 when
\* the table lacks that one.
MomentumColumn ==
    IF RsiColumn(strategy.rsi_period) \in DOMAIN data
    THEN RsiColumn(strategy.rsi_period) ELSE "rsi_14"

MissingColumnFailsWith(err) ==
    gs_status # "none" =>
        /\ Lacks(strategy, data) => gs_status = err /\ generated = <<>>
        /\ ~Lacks(strategy, data) => gs_status = "returned"
        /\ strategy.name = "momentum" /\ ~Lacks(strategy, data) =>
              generated = Crossings(data[MomentumColumn], strategy.threshold)

\* C13: generate_signals of every strategy, on a table that lacks an
\* indicator column the strategy needs, fails with MissingIndicatorError
\* and yields no signals; Momentum reads rsi_14 when the column of its
\* period is absent, and fails in the same way when rsi_14 is absent too.
C13_MissingIndicatorError == MissingColumnFailsWith("MissingIndicatorError")

\* C13, amended: the failure is the KeyError of the column lookup.
C13_MissingColumnKeyError == MissingColumnFailsWith("KeyError")

C13_Witness ==
    /\ gs_status = "KeyError"
    /\ strategy.name = "Trend Following"
    /\ DOMAIN data = {"sma_50"}
    /\ Len(data["sma_50"]) = 2

\* The condition of a Buy (up) and of a Sell (~up) of an edge-triggered
\* strategy at bar i: the oscillator above (below) the threshold, the fast
\* line above (below) the signal line.
EdgeCondition(up, i) ==
    IF strategy.name = "momentum"
    THEN IF up THEN data[MomentumColumn][i] > strategy.threshold
               ELSE data[MomentumColumn][i] < strategy.threshold
    ELSE IF up THEN data["macd"][i] > data["macd_signal"][i]
               ELSE data["macd"][i] < data["macd_signal"][i]

\* Within every unbroken stretch i..j of bars on which the condition holds,
\* at most one bar carries v, and it is the first bar of the stretch.
OncePerStretch(up, v) ==
    \A i, j \in 1..Len(generated) :
        (i <= j /\ \A k \in i..j : EdgeCondition(up, k)) =>
            /\ Cardinality({k \in i..j : generated[k] = v}) <= 1
            /\ \A k \in i..j : generated[k] = v => k = i

IsCrossingTable ==
    /\ DOMAIN data = {"close", "rsi_14"}
    /\ data["close"] = <<100, 101, 99, 98, 103>>
    /\ data["rsi_14"] = <<40, 40, 60, 60, 60>>

\* C20: Momentum and MACD compare each bar with the bar before it: the
\* first bar never carries a Buy or a Sell, and an unbroken stretch of bars
\* on which the condition holds carries at most one Buy, at its first bar
\* (and likewise for Sell); on the five bars with one upward crossing
\* between the second and the third bar the signals are 0, 0, 1, 0, 0 and
\* the positions 0, 0, 1, 1, 1.
C20_EdgeTriggered ==
    (gs_status = "returned" /\ strategy.name \in {"momentum", "MACD"}) =>
        /\ Len(generated) >= 1 => generated[1] = 0
        /\ OncePerStretch(TRUE, 1)
        /\ OncePerStretch(FALSE, -1)
        /\ (strategy.name = "momentum" /\ IsCrossingTable) =>
              /\ generated = <<0, 0, 1, 0, 0>>
              /\ calculate_positions(generated) = AsSeries(<<0, 0, 1, 1, 1>>)

C20_Witness ==
    /\ gs_status = "returned"
    /\ strategy.name = "momentum"
    /\ IsCrossingTable
    /\ generated[3] = 1

(***************************************************************************)
(* The cost calculator.                                                    *)
(***************************************************************************)
Called(op) == cost_status \notin {"none", "ready"} /\ cost_call.op = op

ZeroQuantityFailsWith(err) ==
    (cost_status \notin {"none", "ready"} /\ cost_call.quantity = Num(0)) =>
        cost_status = err /\ cost_result = <<>>

\* C14: calculate_entry_cost, and so calculate_roundtrip_cost, called with
\* quantity 0 fails with InvalidQuantityError for either side and any
\* price, and returns no cost breakdown.
C14_InvalidQuantityError == ZeroQuantityFailsWith("InvalidQuantityError")

\* C14, amended: the failure is the ZeroDivisionError of the division.
C14_ZeroDivisionError == ZeroQuantityFailsWith("ZeroDivisionError")

C14_Witness ==
    /\ Called("roundtrip")
    /\ cost_call.quantity = Num(0)
    /\ cost_status = "ZeroDivisionError"

\* v percent of x
PercentOf(x, v) == Div(Mul(x, v), Num(100))

\* The commission due on the gross value g: the percentage, but no less
\* than the minimum.
CommissionDue(g) ==
    LET pct == PercentOf(g, cost_model.commission_pct)
    IN  IF Less(pct, cost_model.commission_min) THEN cost_model.commission_min
        ELSE pct

\* The total cost of one fill of quantity q at price p.
TotalDue(p, q) ==
    Add(CommissionDue(Mul(p, q)),
        Add(PercentOf(Mul(p, q), cost_model.spread_pct),
            PercentOf(Mul(p, q), cost_model.slippage_pct)))

\* C15: for every price, nonzero quantity, side and cost model
\* calculate_entry_cost returns gross_value = price * quantity, commission
\* = max(gross_value * commission_pct / 100, commission_min), total_cost =
\* commission + spread_cost + slippage_cost and effective_price =
\* (gross_value + total_cost) / quantity for a buy, (gross_value -
\* total_cost) / quantity for a sell; the default model, price 100 and
\* quantity 10 give a buy total_cost 0.6 and effective_price 100.06.
C15_EntryCostBreakdown ==
    (Called("entry") /\ cost_call.quantity # Num(0)) =>
        LET p == cost_call.price
            q == cost_call.quantity
            g == Mul(p, q)
            r == cost_result
        IN  /\ cost_status = "returned"
            /\ r.gross_value = g
            /\ r.commission = CommissionDue(g)
            /\ r.spread_cost = PercentOf(g, cost_model.spread_pct)
            /\ r.slippage_cost = PercentOf(g, cost_model.slippage_pct)
            /\ r.total_cost = Add(r.commission, Add(r.spread_cost, r.slippage_cost))
            /\ cost_call.side = "buy" =>
                  r.effective_price = Div(Add(g, r.total_cost), q)
            /\ cost_call.side = "sell" =>
                  r.effective_price = Div(Sub(g, r.total_cost), q)
            /\ (cost_model = DefaultCostModel /\ p = Num(100) /\ q = Num(10)
                  /\ cost_call.side = "buy") =>
                  r.total_cost = Rat(6, 10) /\ r.effective_price = Rat(10006, 100)

C15_Witness ==
    /\ Called("entry")
    /\ cost_status = "returned"
    /\ cost_model = DefaultCostModel
    /\ cost_call.price = Num(100)
    /\ cost_call.quantity = Num(10)
    /\ cost_call.side = "buy"
    /\ cost_result.total_cost = Rat(6, 10)

RoundtripAtOnePrice ==
    /\ Called("roundtrip")
    /\ cost_call.price = cost_call.exit_price
    /\ Less(Num(0), cost_call.quantity)

RoundtripIsSumAndPositive ==
    /\ cost_status = "returned"
    /\ cost_result = Add(TotalDue(cost_call.price, cost_call.quantity),
                         TotalDue(cost_call.exit_price, cost_call.quantity))
    /\ Less(Num(0), cost_result)

\* C16: calculate_roundtrip_cost(p, p, q) is the total_cost of the buy plus
\* the total_cost of the sell, and is greater than 0 for every q > 0, also
\* when commission_pct and commission_min are zero.
C16_RoundtripPositive == RoundtripAtOnePrice => RoundtripIsSumAndPositive

\* C16, amended: it is the sum for every q > 0, and greater than 0
\* whenever the cost model charges a spread or a slippage.
C16_RoundtripPositiveWithSpread ==
    RoundtripAtOnePrice =>
        /\ cost_status = "returned"
        /\ cost_result = Add(TotalDue(cost_call.price, cost_call.quantity),
                             TotalDue(cost_call.exit_price, cost_call.quantity))
        /\ Less(Num(0), Add(cost_model.spread_pct, cost_model.slippage_pct)) =>
              Less(Num(0), cost_result)

C16_Witness ==
    /\ RoundtripAtOnePrice
    /\ cost_model = DefaultCostModel
    /\ cost_call.quantity = Rat(1, 2)
    /\ Less(Num(0), cost_result)

(***************************************************************************)
(* The performance metrics.                                                *)
(***************************************************************************)
Defined(x) == ~IsNaN(x)

AllZeroOrUndefined(s) == \A i \in 1..Len(s) : IsNaN(s[i]) \/ s[i] = Num(0)

\* C17: backtest never fails and reports a defined sharpe_ratio and
\* win_rate; when every strategy return is zero or undefined (a Flat
\* position on every bar, a single bar) both are 0.
C17_MetricsDefined ==
    bt_status # "none" =>
        /\ bt_status = "ok"
        /\ Defined(metrics.sharpe_ratio)
        /\ Defined(metrics.win_rate)
        /\ AllZeroOrUndefined(strategy_returns) =>
              metrics.sharpe_ratio = Num(0) /\ metrics.win_rate = Num(0)

\* The equity never falls from one bar that has a value to the next that
\* has one.
NonDecreasing(eq) ==
    \A i, j \in 1..Len(eq) :
        (i < j /\ Defined(eq[i]) /\ Defined(eq[j])) => LessEq(eq[i], eq[j])

\* C18: max_drawdown is at most 0 for every equity curve backtest produces,
\* and is 0 exactly when the curve never decreases.
C18_MaxDrawdown ==
    bt_status = "ok" =>
        /\ LessEq(metrics.max_drawdown, Num(0))
        /\ metrics.max_drawdown = Num(0) <=> NonDecreasing(equity)

\* The number of the values of s that are numbers other than 0.
CountNonzeroNumbers(s) ==
    Cardinality({i \in 1..Len(s) : ~IsNaN(s[i]) /\ s[i] # Num(0)})

\* C19: total_trades is the number of bars whose strategy return is a
\* nonzero number, and win_rate divides by the same count; the first bar,
\* whose strategy return is undefined, is not counted: a run that is Flat
\* on every bar reports total_trades = 0.
C19_TotalTrades ==
    bt_status = "ok" =>
        /\ metrics.total_trades = CountNonzeroNumbers(strategy_returns)
        /\ metrics.win_rate =
              IF metrics.total_trades > 0
              THEN Rat(CountPositive(strategy_returns), metrics.total_trades)
              ELSE Num(0)
        /\ (\A i \in 1..Len(position) : position[i] = Num(0)) =>
              metrics.total_trades = 0

\* The conditions of a Buy (up) and of a Sell (~up) of a level-triggered
\* strategy at bar i, read from the values of that bar.
LevelCondition(up, i) ==
    CASE strategy.name = "Mean Reversion" ->
            IF up THEN data["rsi_14"][i] < strategy.rsi_oversold
                  ELSE data["rsi_14"][i] > strategy.rsi_overbought
      [] strategy.name = "Bollinger Breakout" ->
            IF up THEN data["close"][i] > data["bb_upper"][i]
                  ELSE data["close"][i] < data["bb_lower"][i]
      [] strategy.name = "Trend Following" ->
            IF up THEN data["sma_50"][i] > data["sma_200"][i]
                  ELSE data["sma_50"][i] < data["sma_200"][i]

LevelTriggered == {"Mean Reversion", "Bollinger Breakout", "Trend Following"}

\* C21: Mean-Reversion, Bollinger-Breakout and Trend-Following decide each
\* bar from that bar alone: a Buy on every bar on which the Buy condition
\* holds (oscillator below the oversold level, close above the upper band,
\* fast average above the slow one), a Sell on every bar on which the Sell
\* condition holds, 0 on every other bar; the signal of a bar is a function
\* of the values of that bar, whatever the other bars hold.
C21_LevelTriggered ==
    (gs_status = "returned" /\ strategy.name \in LevelTriggered) =>
        \A i \in 1..Len(generated) :
            /\ LevelCondition(TRUE, i) => generated[i] = 1
            /\ LevelCondition(FALSE, i) => generated[i] = -1
            /\ (~LevelCondition(TRUE, i) /\ ~LevelCondition(FALSE, i)) =>
                  generated[i] = 0

C21_Witness ==
    /\ gs_status = "returned"
    /\ strategy.name = "Trend Following"
    /\ Len(generated) = 3
    /\ generated = <<1, 1, -1>>

\* A fetch_stock_data call has been made.
Fetched == fetch_call.key # "none"

FirstBars(outcomes) ==
    IF \E k \in 1..Len(outcomes) : outcomes[k] = "bars"
    THEN CHOOSE k \in 1..Len(outcomes) :
            /\ outcomes[k] = "bars"
            /\ \A j \in 1..(k - 1) : outcomes[j] # "bars"
    ELSE 0

\* C23: a call makes at most three contacts with the live source; the
\* first attempt that returns bars ends the call with those bars; when no
\* attempt returns bars the call returns synthetic bars if
\* use_synthetic_on_fail is on, and raises otherwise.
C23_AttemptsAndFallback ==
    Fetched =>
        /\ fetch_result.contacts <= 3
        /\ fetch_result.source # "cache" =>
              LET first == FirstBars(fetch_call.outcomes)
              IN  IF first > 0
                  THEN /\ fetch_result.source = "yahoo"
                       /\ fetch_result.contacts = first
                       /\ fetch_result.table \in Versions
                  ELSE /\ fetch_result.contacts = 3
                       /\ fetch_result.source =
                             IF fetch_call.use_synthetic_on_fail
                             THEN "synthetic" ELSE "ValueError"

\* The second attempt returned bars after a failed first one.
C23_Witness ==
    /\ Fetched
    /\ fetch_call.outcomes[1] = "error"
    /\ fetch_call.outcomes[2] = "bars"
    /\ fetch_result.source = "yahoo"
    /\ fetch_result.contacts = 2

(***************************************************************************)
(* The live loop and the brokerage's positions.                            *)
(***************************************************************************)
\* The step evaluates a symbol and submits a buy order for it.
BuySubmitted ==
    /\ live_pc = "symbol"
    /\ idx' = idx + 1
    /\ obs'.stage = "evaluated"
    /\ Len(obs'.orders) = 1
    /\ obs'.orders[1].side = "buy"

\* C24: a buy order is submitted for a symbol only when the account holds
\* no position in it; a position lookup that fails does not lead to a buy.
C24_BuyOnlyWithoutPosition ==
    [][BuySubmitted => held[symbols[idx]] = 0]_vars

\* C25: within one cycle the summed value (quantity times latest price) of
\* the buy orders submitted does not exceed the cash the account had when
\* the cycle started, however many symbols the cycle goes through.
C25_BuysWithinCash == bought <= watch_cash

\* The step evaluates a symbol and submits a buy order for it.
PendBuySubmitted ==
    /\ pend_pc = "symbol"
    /\ pend_idx' = pend_idx + 1
    /\ pend_obs'.stage = "evaluated"
    /\ Len(pend_obs'.orders) = 1
    /\ pend_obs'.orders[1].side = "buy"

\* C26: no buy order is submitted for a symbol while an earlier buy order
\* for it has been accepted by the brokerage and is not yet an open
\* position.
C26_NoBuyWhileUnfilled ==
    [][PendBuySubmitted => unfilled[PendSymbols[pend_idx]] = 0]_vars

\* C27: the bars fetched for a symbol of a live cycle are so many that
\* prepare_data leaves at least one, and the latest signal can be read.
C27_WindowLongEnough ==
    /\ win_pc \in {"prepared", "read", "IndexError"} => win_prepared >= 1
    /\ win_pc # "IndexError"

\* run was called with a duration and the elapsed time has reached it.
BudgetReached ==
    /\ live_pc \in {"loop", "cycle", "symbol", "duration", "sleep"}
    /\ Len(duration_hours) = 1
    /\ elapsed >= duration_hours[1]

\* The while loop of run has been left.
LoopLeft == live_pc \in {"finally", "returned", "propagated"}

\* A cycle begins although the duration has been reached.
LateCycle == BudgetReached /\ live_pc = "loop" /\ live_pc' = "cycle"

\* C28: once the elapsed time has reached the duration run was called
\* with, 0 included, the loop is eventually left, and no cycle begins after
\* the duration has been reached.
C28_ExitsOnceBudgetReached ==
    /\ BudgetReached ~> LoopLeft
    /\ [][~LateCycle]_vars

\* The first part for a duration of 0, which `if duration_hours:` skips.
ExitsOnceZeroBudgetReached ==
    (BudgetReached /\ duration_hours[1] = 0) ~> LoopLeft

\* The first part for a duration other than 0.
ExitsOncePositiveBudgetReached ==
    (BudgetReached /\ duration_hours[1] > 0) ~> LoopLeft

\* The second part for a duration other than 0.
NoLateCycleOfPositiveBudget ==
    [][~(LateCycle /\ duration_hours[1] > 0)]_vars

====
